---- MODULE Spec2Model ----
\* Model of the Yandex.Metrika report extraction
\* (src/Get Report visits yandex metric/get_report_yandex_metrica_sync.py):
\* date-range partitioning, the shared time budget, page fetching with error
\* classification, the per-chunk pagination loop and the sequential chunk loop.
EXTENDS Integers, Sequences, FiniteSets, TLC

VARIABLES
    arguments,       \* the dict passed to get_report_visits_yandex_metric
    pc,              \* "entry" | "loop" | "returned" | "raised"
    now,             \* time.perf_counter(), in ticks of 0.01 s
    start_time,      \* perf_counter() taken when the call starts
    global_timeout,  \* int(arguments["timeout"]), seconds
    date_chunks,     \* list(auto_date_chunks(...))
    ci,              \* index in date_chunks of the chunk being fetched
    all_rows,        \* rows merged from the chunks finished so far
    c_rows,          \* fetch_chunk_all_pages: all_rows of the current chunk
    offset,          \* fetch_chunk_all_pages: offset of the next page request
    sampled_global,  \* fetch_chunk_all_pages: sampled flag of the current chunk
    avail,           \* remote API: number of rows the current chunk's report has
    err,             \* the YandexMetrikaError raised, NoError if none
    result,          \* rows of the table returned
    hist,            \* observations of the run (requests, budget queries, chunks)
    data,            \* build_dataframe: the payload {"query", "data"} it is given
    df,              \* build_dataframe: the table it returns
    f,               \* streaming sink: what has been written to the open file
    header_written,  \* streaming sink: header_written
    results,         \* concurrent variant: what gather() holds for each chunk
    Utils            \* preset variant: the class attributes OFFSET, TOTAL_ROWS, LIMIT

vars == <<arguments, pc, now, start_time, global_timeout, date_chunks, ci,
          all_rows, c_rows, offset, sampled_global, avail, err, result, hist,
          data, df, f, header_written, results, Utils>>

\* the variables of the table assembly, the streaming sink, the concurrent
\* variant and the preset variant; the sequential call does not touch them
side == <<data, df, f, header_written, results, Utils>>

-----------------------------------------------------------------------------
\* Bounds of the model.

\* years of the sampled dates of the partitioner run: 2019..YearHi
YearHi == 2025
\* the remote report of one chunk has 0..MaxTotal rows
MaxTotal == 4
\* batch_size ranges over 1..MaxBatch
MaxBatch == 2
\* max_rows ranges over 0..MaxCeil (0: no ceiling)
MaxCeil == 3
\* a payload given to build_dataframe on its own has 0..MaxRows rows
MaxRows == 2

\* ticks of the model clock per second (the clock is perf_counter in 0.01 s)
TicksPerSecond == 100
\* time.sleep(0.11) after every fetch_page, in ticks
PacingTicks == 11

-----------------------------------------------------------------------------
\* datetime arithmetic (proleptic Gregorian calendar, as Python's datetime).
\* A datetime at midnight is [year, month, day].

IsLeap(y) == (y % 4 = 0 /\ y % 100 # 0) \/ y % 400 = 0

DaysInMonth(y, m) ==
    IF m = 2 THEN (IF IsLeap(y) THEN 29 ELSE 28)
    ELSE IF m \in {4, 6, 9, 11} THEN 30 ELSE 31

DaysBeforeYear(y) ==
    (y - 1) * 365 + ((y - 1) \div 4) - ((y - 1) \div 100) + ((y - 1) \div 400)

RECURSIVE DaysBeforeMonth(_, _)
DaysBeforeMonth(y, m) ==
    IF m = 1 THEN 0 ELSE DaysBeforeMonth(y, m - 1) + DaysInMonth(y, m - 1)

\* datetime.toordinal(); a - b for datetimes is the difference of ordinals
toordinal(dt) == DaysBeforeYear(dt.year) + DaysBeforeMonth(dt.year, dt.month) + dt.day

datetime(y, m, d) == [year |-> y, month |-> m, day |-> d]

\* dt + timedelta(days=1)
next_day(dt) ==
    IF dt.day < DaysInMonth(dt.year, dt.month)
    THEN datetime(dt.year, dt.month, dt.day + 1)
    ELSE IF dt.month < 12 THEN datetime(dt.year, dt.month + 1, 1)
    ELSE datetime(dt.year + 1, 1, 1)

\* dt + timedelta(days=n)
RECURSIVE plus_days(_, _)
plus_days(dt, n) == IF n = 0 THEN dt ELSE plus_days(next_day(dt), n - 1)

\* dt - timedelta(days=1)
minus_one_day(dt) ==
    IF dt.day > 1 THEN datetime(dt.year, dt.month, dt.day - 1)
    ELSE IF dt.month > 1
         THEN datetime(dt.year, dt.month - 1, DaysInMonth(dt.year, dt.month - 1))
    ELSE datetime(dt.year - 1, 12, 31)

\* min(a, b) on datetimes
min_dt(a, b) == IF toordinal(a) <= toordinal(b) THEN a ELSE b

-----------------------------------------------------------------------------
\* Date strings. The text "<year><sep><month><sep><day>" is the record of its
\* three numbers, the number of characters each is written with, and the
\* separator character; NoneStr is an absent (None or empty) argument.

NoneStr == [form |-> "none", y |-> 0, yw |-> 0, m |-> 0, mw |-> 0,
            d |-> 0, dw |-> 0, sep |-> ""]

Text(y, yw, m, mw, d, dw, sep) ==
    [form |-> "text", y |-> y, yw |-> yw, m |-> m, mw |-> mw,
     d |-> d, dw |-> dw, sep |-> sep]

\* the zero-padded text YYYY-MM-DD of a date
Iso(y, m, d) == Text(y, 4, m, 2, d, 2, "-")

\* datetime.strftime("%Y-%m-%d"), for years of four digits
strftime(dt) == Iso(dt.year, dt.month, dt.day)

\* datetime.strptime(s, "%Y-%m-%d") succeeds: %Y is \d\d\d\d, %m is
\* 1[0-2]|0[1-9]|[1-9], %d is 3[01]|[12]\d|0[1-9]|[1-9], '-' between them,
\* and the day exists in the month.
strptime_ok(s) ==
    /\ s.form = "text"
    /\ s.sep = "-"
    /\ s.yw = 4 /\ s.y \in 1..9999
    /\ \/ s.mw = 2 /\ s.m \in 1..12
       \/ s.mw = 1 /\ s.m \in 1..9
    /\ \/ s.dw = 2 /\ s.d \in 1..31
       \/ s.dw = 1 /\ s.d \in 1..9
    /\ s.d <= DaysInMonth(s.y, s.m)

\* the datetime strptime returns
strptime(s) == datetime(s.y, s.m, s.d)

-----------------------------------------------------------------------------
\* auto_date_chunks

\* chunk_end = min(next_unit - timedelta(days=1), end)
ChunkEndNoMin(next_unit, end) == minus_one_day(next_unit)

chunk_end(next_unit, end) == min_dt(minus_one_day(next_unit), end)

\* (start.replace(day=28) + timedelta(days=4)).replace(day=1)
next_month(start) ==
    [plus_days([start EXCEPT !.day = 28], 4) EXCEPT !.day = 1]

\* the first day of the quarter after start's
next_quarter(start) ==
    LET month == (((start.month - 1) \div 3) + 1) * 3 + 1
    IN  IF month > 12 THEN datetime(start.year + 1, 1, 1)
        ELSE datetime(start.year, month, 1)

\* start.replace(month=1, day=1, year=start.year + 1)
next_year(start) == datetime(start.year + 1, 1, 1)

\* the three while loops; unit is "month", "quarter" or "year"
next_unit(unit, start) ==
    IF unit = "month" THEN next_month(start)
    ELSE IF unit = "quarter" THEN next_quarter(start)
    ELSE next_year(start)

RECURSIVE chunk_loop(_, _, _)
chunk_loop(unit, start, end) ==
    IF toordinal(start) <= toordinal(end)
    THEN LET nxt == next_unit(unit, start)
         IN  <<<<strftime(start), strftime(chunk_end(nxt, end))>>>>
             \o chunk_loop(unit, nxt, end)
    ELSE <<>>

\* the granularity chosen from delta_days
GranularityBelow(delta_days) ==
    IF delta_days < 365 THEN "month"
    ELSE IF delta_days < 1825 THEN "quarter"
    ELSE "year"

granularity(delta_days) ==
    IF delta_days <= 365 THEN "month"
    ELSE IF delta_days <= 1825 THEN "quarter"
    ELSE "year"

\* list(auto_date_chunks(date1, date2, split)): the chunks, or the error raised
ChunksIgnoreSplit(date1, date2, split) ==
    IF ~(strptime_ok(date1) /\ strptime_ok(date2))
    THEN [raised |-> TRUE, message |-> "bad date format", chunks |-> <<>>]
    ELSE LET start == strptime(date1)
             end == strptime(date2)
         IN  IF toordinal(start) > toordinal(end)
             THEN [raised |-> TRUE, message |-> "date1 > date2", chunks |-> <<>>]
             ELSE [raised |-> FALSE, message |-> "",
                   chunks |-> chunk_loop(granularity(toordinal(end) - toordinal(start)),
                                         start, end)]

auto_date_chunks(date1, date2, split) ==
    IF ~(strptime_ok(date1) /\ strptime_ok(date2))
    THEN [raised |-> TRUE, message |-> "bad date format", chunks |-> <<>>]
    ELSE LET start == strptime(date1)
             end == strptime(date2)
         IN  IF toordinal(start) > toordinal(end)
             THEN [raised |-> TRUE, message |-> "date1 > date2", chunks |-> <<>>]
             ELSE IF ~split
             THEN [raised |-> FALSE, message |-> "", chunks |-> <<<<date1, date2>>>>]
             ELSE [raised |-> FALSE, message |-> "",
                   chunks |-> chunk_loop(granularity(toordinal(end) - toordinal(start)),
                                         start, end)]

-----------------------------------------------------------------------------
\* Errors. Every failure is one YandexMetrikaError; kind names the raise
\* statement, code the HTTP status it carries (0 if none), message the text
\* taken from the response.

NoError == [kind |-> "None", code |-> 0, message |-> ""]

Error(kind) == [kind |-> kind, code |-> 0, message |-> ""]

-----------------------------------------------------------------------------
\* remaining_timeout

BudgetLeftPerRequest(t) == global_timeout * TicksPerSecond

\* left = global_timeout - (time.perf_counter() - start_time), at clock t
budget_left(t) == global_timeout * TicksPerSecond - (t - start_time)

\* if left <= 0: raise
ExhaustedStrict(left) == left < 0

NeverExhausted(left) == FALSE

budget_exhausted(left) == left <= 0

\* the instant after which remaining_timeout raises
deadline == start_time + global_timeout * TicksPerSecond

-----------------------------------------------------------------------------
\* fetch_page: the responses of the remote API and their classification

\* statuses for which resp.raise_for_status() raises HTTPError
raises_for_status(code) == 400 <= code /\ code < 600

\* the error statuses the modelled server answers with
ErrorStatuses == {400, 401, 402, 403, 404, 405, 413, 418, 429, 500, 503, 599}

\* the statuses it answers with every modelled body
BodyStatuses == {404, 500}

\* the if/elif chain on resp.status_code
ClassifyNo413(code) ==
    IF code = 400 THEN "BadRequest"
    ELSE IF code = 401 THEN "Unauthorized"
    ELSE IF code = 402 THEN "PaymentRequired"
    ELSE IF code = 403 THEN "Forbidden"
    ELSE IF code = 404 THEN "NotFound"
    ELSE IF code = 429 THEN "RateLimited"
    ELSE IF code >= 500 THEN "ServerError"
    ELSE "Unknown"

classify(code) ==
    IF code = 400 THEN "BadRequest"
    ELSE IF code = 401 THEN "Unauthorized"
    ELSE IF code = 402 THEN "PaymentRequired"
    ELSE IF code = 403 THEN "Forbidden"
    ELSE IF code = 404 THEN "NotFound"
    ELSE IF code = 413 THEN "PayloadTooLarge"
    ELSE IF code = 429 THEN "RateLimited"
    ELSE IF code >= 500 THEN "ServerError"
    ELSE "Unknown"

\* A response body is its raw text and what resp.json() makes of it:
\* json = "invalid" (resp.json() raises), "list" (a JSON array) or "object";
\* an object may hold "message" (has_message, message) and "errors", a list
\* of objects each of which may hold "message".
Body(text, json, has_message, message, has_errors, errors) ==
    [text |-> text, json |-> json, has_message |-> has_message,
     message |-> message, has_errors |-> has_errors, errors |-> errors]

Item(has_message, message) == [has_message |-> has_message, message |-> message]

Bodies ==
    { Body("<html>Not Found</html>", "invalid", FALSE, "", FALSE, <<>>),
      Body("", "invalid", FALSE, "", FALSE, <<>>),
      Body("[]", "list", FALSE, "", FALSE, <<>>),
      Body("{}", "object", FALSE, "", FALSE, <<>>),
      Body("{message:nf}", "object", TRUE, "nf", FALSE, <<>>),
      Body("{errors:[{message:em}]}", "object", FALSE, "", TRUE, <<Item(TRUE, "em")>>),
      Body("{message:,errors:[{message:em}]}", "object", TRUE, "", TRUE,
           <<Item(TRUE, "em")>>),
      Body("{message:nf,errors:[{message:em}]}", "object", TRUE, "nf", TRUE,
           <<Item(TRUE, "em")>>),
      Body("{errors:[{}]}", "object", FALSE, "", TRUE, <<Item(FALSE, "")>>),
      Body("{errors:[]}", "object", FALSE, "", TRUE, <<>>) }

\* the body the other statuses are answered with
PlainBody == Body("{message:nf}", "object", TRUE, "nf", FALSE, <<>>)

\* dict.get("message"): None (falsy, here "") when the key is absent
get_message(obj) == IF obj.has_message THEN obj.message ELSE ""

\* message = error_json.get("message")
\*           or error_json.get("errors", [{}])[0].get("message", "")
\* except Exception: message = resp.text
MessageFieldOnly(body) ==
    IF body.json = "object" THEN get_message(body) ELSE body.text

error_message(body) ==
    IF body.json # "object" THEN body.text            \* json() or .get raises
    ELSE IF get_message(body) # "" THEN get_message(body)
    ELSE LET errors == IF body.has_errors THEN body.errors
                       ELSE <<Item(FALSE, "")>>
         IN  IF errors = <<>> THEN body.text             \* [][0]: IndexError
             ELSE get_message(errors[1])

\* the error fetch_page raises for an HTTPError response
http_error(code, body) ==
    [kind |-> classify(code), code |-> code, message |-> error_message(body)]

-----------------------------------------------------------------------------
\* The remote report of one chunk: rows 1..total, row k of chunk c is <<c, k>>.
\* A request with limit and offset is answered with the rows
\* offset .. offset + limit - 1 that exist.

Min(a, b) == IF a <= b THEN a ELSE b

page(c, off, limit, total) ==
    LET n == IF off > total THEN 0 ELSE Min(limit, total - off + 1)
    IN  [i \in 1..n |-> <<c, off + i - 1>>]

-----------------------------------------------------------------------------
\* fetch_chunk_all_pages: the checks after a page

batch_size == arguments.batch_size

\* max_rows = int(arguments.get("max_rows", 0)) or None; 0 stands for None
max_rows == arguments.max_rows

\* if max_rows and len(all_rows) >= max_rows
reached_ceiling(rows) == max_rows # 0 /\ Len(rows) >= max_rows

\* all_rows[:max_rows]
NoTrim(rows) == rows

trim(rows) == SubSeq(rows, 1, Min(max_rows, Len(rows)))

\* if len(data_rows) < batch_size: break
ShortOrLast(data_rows) == Len(data_rows) <= batch_size /\ offset + batch_size > avail

page_is_short(data_rows) == Len(data_rows) < batch_size

-----------------------------------------------------------------------------
\* build_dataframe: the table assembled from a payload.
\* A field name such as "ym:s:date" is the sequence of its ':'-separated
\* segments, <<"ym", "s", "date">>. A value of the payload is a sequence of
\* strings: <<"val", v>> for a scalar, <<"list", v1, ..>> for a list of
\* scalars, <<"nan">> for the value pandas puts where a record has no key.

\* d.split(":")[-1]
FirstSegment(name) == name[1]

last_segment(name) == name[Len(name)]

\* [d.split(":")[-1] for d in names]
column_names(names) == [j \in 1..Len(names) |-> last_segment(names[j])]

NaN == <<"nan">>

Scalar(v) == <<"val", v>>

List(vs) == <<"list">> \o vs

\* isinstance(x, list)
isinstance_list(x) == x[1] = "list"

\* the items of a list value
items(x) == [j \in 1..(Len(x) - 1) |-> Scalar(x[j + 1])]

\* f"dimension_{j}" and f"metric_{j}", j from 0
dimension_placeholders ==
    <<"dimension_0", "dimension_1", "dimension_2", "dimension_3", "dimension_4">>

metric_placeholders ==
    <<"metric_0", "metric_1", "metric_2", "metric_3", "metric_4">>

\* names[j] if j < len(names) else the placeholder of j
column_name(names, placeholders, j) ==
    IF j < Len(names) THEN names[j + 1] ELSE placeholders[j + 1]

\* A dict is the sequence of its <<key, value>> items in insertion order.
\* record[key] = val
setitem(record, key, val) ==
    IF \E i \in 1..Len(record) : record[i][1] = key
    THEN [i \in 1..Len(record) |->
             IF record[i][1] = key THEN <<key, val>> ELSE record[i]]
    ELSE Append(record, <<key, val>>)

has_key(record, key) == \E i \in 1..Len(record) : record[i][1] = key

\* the value of key, NaN if the dict has no such key
lookup(record, key) ==
    IF has_key(record, key)
    THEN record[CHOOSE i \in 1..Len(record) : record[i][1] = key][2]
    ELSE NaN

\* for j, val in enumerate(values): record[column name of j] = val, from j on
RECURSIVE put_values(_, _, _, _, _)
put_values(record, names, placeholders, values, j) ==
    IF j >= Len(values) THEN record
    ELSE put_values(setitem(record, column_name(names, placeholders, j),
                            values[j + 1]),
                    names, placeholders, values, j + 1)

\* the sequential variant: a first item that is a list replaces the metrics
first_set(metrics) ==
    IF Len(metrics) > 0 /\ isinstance_list(metrics[1])
    THEN items(metrics[1]) ELSE metrics

\* the concurrent variant: a single item that is a list replaces the metrics
only_set(metrics) ==
    IF Len(metrics) = 1 /\ isinstance_list(metrics[1])
    THEN items(metrics[1]) ELSE metrics

\* the treatment of nested metrics of a variant, "sync" or "async"
unwrap(metrics, variant) ==
    IF variant = "sync" THEN first_set(metrics) ELSE only_set(metrics)

\* the record of one row of the payload
row_record(row, dim_names, met_names, variant) ==
    LET dims == [j \in 1..Len(row.dimensions) |-> Scalar(row.dimensions[j].name)]
        with_dims == put_values(<<>>, dim_names, dimension_placeholders, dims, 0)
    IN  put_values(with_dims, met_names, metric_placeholders,
                   unwrap(row.metrics, variant), 0)

\* the keys of the dicts of rows[i..], added to acc in order of appearance
RECURSIVE union_keys(_, _, _)
union_keys(rows, i, acc) ==
    IF i > Len(rows) THEN acc
    ELSE LET r == rows[i]
             fresh == SelectSeq([k \in 1..Len(r) |-> r[k][1]],
                                LAMBDA key : \A a \in 1..Len(acc) : acc[a] # key)
         IN  union_keys(rows, i + 1, acc \o fresh)

\* pd.DataFrame(rows, columns=columns): one column per entry of columns, one
\* row per dict, each cell the dict's value of the column's name
DataFrameOfKeys(rows, columns) ==
    LET keys == union_keys(rows, 1, <<>>)
    IN  [columns |-> keys,
         values  |-> [i \in 1..Len(rows) |->
                        [c \in 1..Len(keys) |-> lookup(rows[i], keys[c])]]]

DataFrame(rows, columns) ==
    [columns |-> columns,
     values  |-> [i \in 1..Len(rows) |->
                    [c \in 1..Len(columns) |-> lookup(rows[i], columns[c])]]]

\* the function, with the treatment of nested metrics of a variant
assemble(d, variant) ==
    LET dim_names == column_names(d.query.dimensions)
        met_names == column_names(d.query.metrics)
        rows == [i \in 1..Len(d.data) |->
                    row_record(d.data[i], dim_names, met_names, variant)]
    IN  DataFrame(rows, dim_names \o met_names)

\* build_dataframe of the sequential variant
build_dataframe(d) == assemble(d, "sync")

\* build_dataframe of the concurrent variant
async_build_dataframe(d) == assemble(d, "async")

\* a query echo without names, what data.get("query", {}) or {} gives for a
\* payload without one
NoQuery == [dimensions |-> <<>>, metrics |-> <<>>]

NoData == [query |-> NoQuery, data |-> <<>>]

NoFrame == [columns |-> <<>>, values |-> <<>>]

-----------------------------------------------------------------------------
\* The call get_report_visits_yandex_metric(arguments)

\* the date arguments of the modelled calls: 2024-01-01, 2024-01-31,
\* 2024-03-15, 2024-1-5, 2024/01/05, 2024-02-30 and an absent date
CallDates ==
    { Iso(2024, 1, 1), Iso(2024, 1, 31), Iso(2024, 3, 15),
      Text(2024, 4, 1, 1, 5, 1, "-"), Text(2024, 4, 1, 2, 5, 2, "/"),
      Iso(2024, 2, 30), NoneStr }

\* seconds of the timeout argument
Timeouts == {0, 1}

\* time a response takes, in ticks
Latencies == {0, 60}

Arguments ==
    [ids : BOOLEAN, date1 : CallDates, date2 : CallDates, split : BOOLEAN,
     timeout : Timeouts, batch_size : 1..MaxBatch, max_rows : 0..MaxCeil]

NoChunk == [ci |-> 0, nreq |-> 0, avail |-> 0, rows |-> 0, stop |-> "none",
            sampled |-> FALSE]

\* the table assembly, the sink and the concurrent variant before they run
\* the class Utils before the function that defines it has been called
NoUtils == [OFFSET |-> 0, TOTAL_ROWS |-> 0, LIMIT |-> 0]

SideInit ==
    /\ data = NoData
    /\ df = NoFrame
    /\ f = <<>>
    /\ header_written = FALSE
    /\ results = <<>>
    /\ Utils = NoUtils

NoHist ==
    [nreq |-> 0,            \* requests issued for the current chunk
     nreq_total |-> 0,      \* requests issued by the call
     issue_at |-> -1,       \* clock when the last request was issued
     issue_timeout |-> 0,   \* timeout= of the last request
     query_at |-> -1,       \* clock of the last remaining_timeout() call
     query_raised |-> FALSE,\* whether that call raised
     left |-> -1,           \* the last value remaining_timeout() returned
     last_chunk |-> NoChunk,\* the last fetch_chunk_all_pages that returned
     served |-> 0,          \* rows of the reports of the chunks started
     failed |-> FALSE,      \* a page request raised
     http |-> <<>>]         \* <<status, body>> of the last HTTPError response

Init ==
    /\ arguments \in Arguments
    /\ pc = "entry"
    /\ now = 0
    /\ start_time = 0
    /\ global_timeout = 0
    /\ date_chunks = <<>>
    /\ ci = 0
    /\ all_rows = <<>>
    /\ c_rows = <<>>
    /\ offset = 0
    /\ sampled_global = FALSE
    /\ avail = 0
    /\ err = NoError
    /\ result = <<>>
    /\ hist = NoHist
    /\ SideInit

\* the checks made before the first request: ids, date1/date2, and the
\* errors auto_date_chunks raises when list() runs it; "" if all pass
validate(args) ==
    IF ~args.ids THEN "ids"
    ELSE IF args.date1.form = "none" \/ args.date2.form = "none" THEN "dates"
    ELSE auto_date_chunks(args.date1, args.date2, args.split).message

\* fetch_chunk_all_pages begins chunk c: its locals, and the report the
\* remote API holds for the chunk
BeginChunk(c, h) ==
    /\ ci' = c
    /\ c_rows' = <<>>
    /\ offset' = 1
    /\ sampled_global' = FALSE
    /\ \E total \in 0..MaxTotal :
          /\ avail' = total
          /\ hist' = [h EXCEPT !.nreq = 0, !.served = @ + total]

\* the function raises e
Raise(e, h) ==
    /\ pc' = "raised"
    /\ err' = e
    /\ hist' = h
    /\ UNCHANGED <<date_chunks, ci, all_rows, c_rows, offset, sampled_global,
                   avail, result>>

\* start of the call up to the first request
Call ==
    /\ pc = "entry"
    /\ start_time' = now
    /\ global_timeout' = arguments.timeout
    /\ UNCHANGED <<arguments, now>>
    /\ UNCHANGED side
    /\ IF validate(arguments) # ""
       THEN Raise([Error("Validation") EXCEPT !.message = validate(arguments)], hist)
       ELSE /\ date_chunks' =
                   auto_date_chunks(arguments.date1, arguments.date2,
                                    arguments.split).chunks
            /\ pc' = "loop"
            /\ all_rows' = <<>>
            /\ BeginChunk(1, hist)
            /\ UNCHANGED <<err, result>>

\* the end of the function: the empty check, the table, the return
ReturnAlways(rows, h) ==
    /\ pc' = "returned"
    /\ result' = rows
    /\ hist' = h
    /\ UNCHANGED <<err, date_chunks, ci, c_rows, offset, sampled_global, avail>>

finish(rows, h) ==
    IF rows = <<>>
    THEN /\ pc' = "raised"
         /\ err' = Error("Empty")
         /\ hist' = h
         /\ UNCHANGED <<result, date_chunks, ci, c_rows, offset, sampled_global,
                        avail>>
    ELSE /\ pc' = "returned"
         /\ result' = rows
         /\ hist' = h
         /\ UNCHANGED <<err, date_chunks, ci, c_rows, offset, sampled_global, avail>>

ChunkReturnsPrepend(rows, stop, sampled, h) ==
    LET h2 == [h EXCEPT !.last_chunk =
                   [ci |-> ci, nreq |-> h.nreq, avail |-> avail,
                    rows |-> Len(rows), stop |-> stop, sampled |-> sampled]]
        merged == rows \o all_rows
        hit == reached_ceiling(merged)
        kept == IF hit THEN trim(merged) ELSE merged
    IN  /\ all_rows' = kept
        /\ IF hit \/ ci = Len(date_chunks)
           THEN finish(kept, h2)
           ELSE /\ BeginChunk(ci + 1, h2)
                /\ UNCHANGED <<pc, err, result, date_chunks>>

\* fetch_chunk_all_pages returns rows (stop: "ceiling" or "short"; sampled:
\* the warning is logged); the body of the for loop merges them and goes on
\* to the next chunk or to the end
chunk_returns(rows, stop, sampled, h) ==
    LET h2 == [h EXCEPT !.last_chunk =
                   [ci |-> ci, nreq |-> h.nreq, avail |-> avail,
                    rows |-> Len(rows), stop |-> stop, sampled |-> sampled]]
        merged == all_rows \o rows
        hit == reached_ceiling(merged)
        kept == IF hit THEN trim(merged) ELSE merged
    IN  /\ all_rows' = kept
        /\ IF hit \/ ci = Len(date_chunks)
           THEN finish(kept, h2)
           ELSE /\ BeginChunk(ci + 1, h2)
                /\ UNCHANGED <<pc, err, result, date_chunks>>

\* the rest of one iteration of the while loop, for a payload with "data"
AfterPageShortFirst(data_rows, sampled, h) ==
    LET rows == c_rows \o data_rows
        flag == sampled_global \/ sampled
    IN  IF page_is_short(data_rows)
        THEN chunk_returns(rows, "short", flag, h)
        ELSE IF reached_ceiling(rows)
        THEN chunk_returns(trim(rows), "ceiling", flag, h)
        ELSE /\ c_rows' = rows
             /\ offset' = offset + batch_size
             /\ sampled_global' = flag
             /\ hist' = h
             /\ UNCHANGED <<pc, err, result, date_chunks, ci, all_rows, avail>>

AfterPageLastSampled(data_rows, sampled, h) ==
    LET rows == c_rows \o data_rows
        flag == sampled
    IN  IF reached_ceiling(rows)
        THEN chunk_returns(trim(rows), "ceiling", flag, h)
        ELSE IF page_is_short(data_rows)
        THEN chunk_returns(rows, "short", flag, h)
        ELSE /\ c_rows' = rows
             /\ offset' = offset + batch_size
             /\ sampled_global' = flag
             /\ hist' = h
             /\ UNCHANGED <<pc, err, result, date_chunks, ci, all_rows, avail>>

after_page(data_rows, sampled, h) ==
    LET rows == c_rows \o data_rows
        flag == sampled_global \/ sampled
    IN  IF reached_ceiling(rows)
        THEN chunk_returns(trim(rows), "ceiling", flag, h)
        ELSE IF page_is_short(data_rows)
        THEN chunk_returns(rows, "short", flag, h)
        ELSE /\ c_rows' = rows
             /\ offset' = offset + batch_size
             /\ sampled_global' = flag
             /\ hist' = h
             /\ UNCHANGED <<pc, err, result, date_chunks, ci, all_rows, avail>>

\* an exception leaves fetch_page: nothing catches it up to the caller
SwallowError(e, h) ==
    chunk_returns(c_rows, "error", sampled_global, h)

propagate(e, h) == Raise(e, h) /\ UNCHANGED all_rows

\* hist when the fetch_page under way raises
Failed(h) == [h EXCEPT !.failed = TRUE]

\* hist after remaining_timeout() returned left and the request was issued
Issued(left) ==
    [hist EXCEPT !.nreq = @ + 1, !.nreq_total = @ + 1, !.issue_at = now,
                 !.issue_timeout = left, !.query_at = now,
                 !.query_raised = FALSE, !.left = left]

\* fetch_page: remaining_timeout() raises; no request; finally: sleep
BudgetExhausted ==
    /\ pc = "loop"
    /\ budget_exhausted(budget_left(now))
    /\ now' = now + PacingTicks
    /\ propagate(Error("Timeout"),
                 Failed([hist EXCEPT !.query_at = now, !.query_raised = TRUE]))
    /\ UNCHANGED <<arguments, start_time, global_timeout>>
    /\ UNCHANGED side

\* fetch_page returns a payload; the while loop body runs on it. timeout=
\* bounds each wait on the socket, not the whole exchange, so the answer may
\* take any of the latencies.
PageOk ==
    /\ pc = "loop"
    /\ ~budget_exhausted(budget_left(now))
    /\ \E d \in Latencies, sampled \in BOOLEAN :
          /\ now' = now + d + PacingTicks
          /\ after_page(page(ci, offset, batch_size, avail), sampled,
                        Issued(budget_left(now)))
    /\ UNCHANGED <<arguments, start_time, global_timeout>>
    /\ UNCHANGED side

\* fetch_page returns a payload without "data"
PageNoData ==
    /\ pc = "loop"
    /\ ~budget_exhausted(budget_left(now))
    /\ now' = now + PacingTicks
    /\ propagate(Error("Protocol"), Failed(Issued(budget_left(now))))
    /\ UNCHANGED <<arguments, start_time, global_timeout>>
    /\ UNCHANGED side

\* requests.exceptions.Timeout: no answer within timeout=left
PageTimeout ==
    /\ pc = "loop"
    /\ ~budget_exhausted(budget_left(now))
    /\ now' = now + budget_left(now) + PacingTicks
    /\ propagate(Error("Timeout"), Failed(Issued(budget_left(now))))
    /\ UNCHANGED <<arguments, start_time, global_timeout>>
    /\ UNCHANGED side

\* requests.exceptions.ConnectionError
PageConnectionError ==
    /\ pc = "loop"
    /\ ~budget_exhausted(budget_left(now))
    /\ now' = now + PacingTicks
    /\ propagate(Error("Connection"), Failed(Issued(budget_left(now))))
    /\ UNCHANGED <<arguments, start_time, global_timeout>>
    /\ UNCHANGED side

\* requests.exceptions.HTTPError from raise_for_status()
PageHttpError ==
    /\ pc = "loop"
    /\ ~budget_exhausted(budget_left(now))
    /\ \E code \in ErrorStatuses, body \in Bodies :
          /\ raises_for_status(code)
          /\ code \in BodyStatuses \/ body = PlainBody
          /\ now' = now + PacingTicks
          /\ propagate(http_error(code, body),
                       Failed([Issued(budget_left(now)) EXCEPT
                                   !.http = <<code, body>>]))
    /\ UNCHANGED <<arguments, start_time, global_timeout>>
    /\ UNCHANGED side

Next ==
    \/ Call
    \/ BudgetExhausted
    \/ PageOk
    \/ PageNoData
    \/ PageTimeout
    \/ PageConnectionError
    \/ PageHttpError

Spec == Init /\ [][Next]_vars

-----------------------------------------------------------------------------
\* auto_date_chunks on its own, over sampled date ranges of 2019..YearHi

\* the 1st, the 16th and the last day of every month
ChunkDates ==
    UNION { { Iso(y, m, 1), Iso(y, m, 16), Iso(y, m, DaysInMonth(y, m)) } :
            <<y, m>> \in (2019..YearHi) \X (1..12) }

InitChunks ==
    /\ arguments \in [ids : {TRUE},
                      date1 : ChunkDates, date2 : ChunkDates,
                      split : BOOLEAN,
                      timeout : {1}, batch_size : {1}, max_rows : {0}]
    /\ pc = "entry"
    /\ now = 0
    /\ start_time = 0
    /\ global_timeout = 0
    /\ date_chunks = <<>>
    /\ ci = 0
    /\ all_rows = <<>>
    /\ c_rows = <<>>
    /\ offset = 0
    /\ sampled_global = FALSE
    /\ avail = 0
    /\ err = NoError
    /\ result = <<>>
    /\ hist = NoHist
    /\ SideInit

\* date_chunks = list(auto_date_chunks(date1, date2, split=split))
Partition ==
    /\ pc = "entry"
    /\ LET r == auto_date_chunks(arguments.date1, arguments.date2, arguments.split)
       IN  \/ /\ r.raised
              /\ pc' = "raised"
              /\ err' = [Error("Validation") EXCEPT !.message = r.message]
              /\ UNCHANGED date_chunks
           \/ /\ ~r.raised
              /\ pc' = "chunked"
              /\ date_chunks' = r.chunks
              /\ UNCHANGED err
    /\ UNCHANGED <<arguments, now, start_time, global_timeout, ci, all_rows,
                   c_rows, offset, sampled_global, avail, result, hist>>
    /\ UNCHANGED side

NextChunks == Partition

SpecChunks == InitChunks /\ [][NextChunks]_vars

\* ordinal of the date a chunk bound names
Ord(s) == toordinal(strptime(s))

\* C1: with split on, the chunks of a range start <= end are in ascending
\* order, each has chunk_start <= chunk_end, each starts the day after the
\* previous one ends, the first starts at start and the last ends at end.
C1_ChunksPartitionRange ==
    (pc = "chunked" /\ arguments.split) =>
        LET n == Len(date_chunks)
        IN  /\ n >= 1
            /\ \A i \in 1..n :
                  /\ strptime_ok(date_chunks[i][1]) /\ strptime_ok(date_chunks[i][2])
                  /\ Ord(date_chunks[i][1]) <= Ord(date_chunks[i][2])
            /\ \A i \in 1..(n - 1) :
                  Ord(date_chunks[i + 1][1]) = Ord(date_chunks[i][2]) + 1
            /\ Ord(date_chunks[1][1]) = Ord(arguments.date1)
            /\ Ord(date_chunks[n][2]) = Ord(arguments.date2)

\* a range of more than 1825 days cut into years, starting and ending in
\* the middle of a month
C1_Witness ==
    /\ pc = "chunked" /\ arguments.split
    /\ Ord(arguments.date2) - Ord(arguments.date1) > 1825
    /\ Len(date_chunks) >= 6
    /\ arguments.date1.d = 16 /\ arguments.date2.d = 16

-----------------------------------------------------------------------------
\* Properties of the sequential extraction (Spec)

CeilDiv(a, b) == (a + b - 1) \div b

C3_RowCeiling ==
    max_rows > 0 =>
        /\ pc = "loop" => Len(c_rows) < max_rows
        /\ hist.last_chunk.stop = "ceiling" => hist.last_chunk.rows = max_rows
        /\ pc = "returned" =>
              /\ Len(result) <= max_rows
              /\ hist.served >= max_rows => Len(result) = max_rows

\* max_rows = 3 with full pages of 2 rows: the chunk stops after its second
\* page and the table has exactly 3 rows
C3_Witness ==
    /\ pc = "returned" /\ max_rows = 3 /\ batch_size = 2
    /\ hist.last_chunk.stop = "ceiling" /\ hist.last_chunk.nreq = 2
    /\ hist.last_chunk.avail >= 4
    /\ Len(result) = 3

\* C4: the deadline is start + timeout and never changes during the call;
\* remaining_timeout() raises exactly when the time left is <= 0 and
\* otherwise returns the positive time left; the values it returns never
\* increase.
C4_TimeBudget ==
    /\ [](pc # "entry" => deadline = arguments.timeout * TicksPerSecond)
    /\ [][pc # "entry" => deadline' = deadline]_vars
    /\ [](hist.query_at >= 0 =>
            /\ hist.query_raised <=> (deadline - hist.query_at <= 0)
            /\ ~hist.query_raised =>
                  (hist.left = deadline - hist.query_at /\ hist.left > 0))
    /\ [][hist.left >= 0 => hist'.left <= hist.left]_vars

\* a budget of 1 second that answered a positive time left and, queried
\* again after the deadline, raised
C4_Witness ==
    /\ global_timeout = 1
    /\ hist.left > 0
    /\ hist.query_raised /\ hist.query_at > deadline
    /\ err.kind = "Timeout"

\* C5: every request is issued before the deadline with the time left as its
\* timeout, and a page step taken at or after the deadline raises the timeout
\* error without issuing a request.
C5_NoRequestAfterDeadline ==
    /\ [](hist.issue_at >= 0 =>
            /\ hist.issue_at < deadline
            /\ hist.issue_timeout = deadline - hist.issue_at)
    /\ [][(pc = "loop" /\ now >= deadline) =>
            /\ pc' = "raised"
            /\ err'.kind = "Timeout"
            /\ hist'.nreq_total = hist.nreq_total]_vars

\* requests were issued, the budget ran out, the call raised the timeout
C5_Witness ==
    /\ pc = "raised" /\ err.kind = "Timeout"
    /\ hist.query_raised
    /\ hist.nreq_total >= 2
    /\ hist.issue_at < hist.query_at

\* C6: once a page request has raised, the call has raised that error, no
\* table is returned and no further request is issued.
C6_FailFast ==
    /\ [](hist.failed => (pc = "raised" /\ err # NoError /\ result = <<>>))
    /\ [][hist.failed =>
            (pc' = "raised" /\ err' = err
             /\ hist'.nreq_total = hist.nreq_total)]_vars

\* a request of the second chunk raised after the first chunk gave rows
C6_Witness ==
    /\ hist.failed /\ pc = "raised"
    /\ ci = 2 /\ all_rows # <<>>
    /\ Len(date_chunks) = 3

\* C7: a table returned is never empty; a call whose chunks all completed
\* with no row at all raises the empty-result error, and only such a call.
C7_EmptyIsError ==
    /\ pc = "returned" => result # <<>>
    /\ (pc \in {"returned", "raised"} /\ ~hist.failed
        /\ err.kind # "Validation" /\ all_rows = <<>>) =>
            (pc = "raised" /\ err.kind = "Empty")
    /\ err.kind = "Empty" =>
            /\ all_rows = <<>> /\ ~hist.failed
            /\ hist.last_chunk.ci = Len(date_chunks)
            /\ hist.served = 0

\* three chunks read, each empty
C7_Witness ==
    /\ pc = "raised" /\ err.kind = "Empty"
    /\ Len(date_chunks) = 3 /\ hist.nreq_total = 3

\* the text is of the form YYYY-MM-DD and names a date of the calendar
IsoForm(s) ==
    /\ s.form = "text" /\ s.sep = "-"
    /\ s.yw = 4 /\ s.mw = 2 /\ s.dw = 2
    /\ s.m \in 1..12 /\ s.d \in 1..DaysInMonth(s.y, s.m)

\* C8 as stated: a missing ids, a missing date, a date not of the form
\* YYYY-MM-DD, or start > end makes the call raise a validation error
\* without any request.
C8_InvalidInputRejected ==
    (/\ pc # "entry"
     /\ \/ ~arguments.ids
        \/ arguments.date1.form = "none" \/ arguments.date2.form = "none"
        \/ ~IsoForm(arguments.date1) \/ ~IsoForm(arguments.date2)
        \/ Ord(arguments.date1) > Ord(arguments.date2))
    => /\ hist.nreq_total = 0
       /\ pc \in {"returned", "raised"} => (pc = "raised" /\ err.kind = "Validation")

\* the kind the claim gives each status
ClaimedKind(code) ==
    CASE code = 400 -> "BadRequest"
      [] code = 401 -> "Unauthorized"
      [] code = 402 -> "PaymentRequired"
      [] code = 403 -> "Forbidden"
      [] code = 404 -> "NotFound"
      [] code = 413 -> "PayloadTooLarge"
      [] code = 429 -> "RateLimited"
      [] code \in 500..599 -> "ServerError"
      [] OTHER -> "Unknown"

\* C9: the error raised for an HTTP error response has the kind the table
\* gives its status and carries the status code.
C9_Classification ==
    hist.http # <<>> =>
        /\ pc = "raised"
        /\ err.kind = ClaimedKind(hist.http[1])
        /\ err.code = hist.http[1]

\* a status none of the branches names
C9_Witness ==
    /\ hist.http # <<>> /\ hist.http[1] = 418
    /\ err.kind = "Unknown" /\ err.code = 418

\* C10 as stated: the message is the body's message field when the body
\* parses (never empty while the raw body is not), the raw body otherwise.
C10_MessageFieldOrRaw ==
    hist.http # <<>> =>
        LET body == hist.http[2]
        IN  /\ body.json = "invalid" => err.message = body.text
            /\ body.json # "invalid" =>
                  /\ (body.has_message /\ body.message # "") =>
                        err.message = body.message
                  /\ body.text # "" => err.message # ""

\* C10 amended: the message is the body's top-level message field when the
\* body is a JSON object with a non-empty one; else the message field of the
\* first entry of its errors list, empty if the object has no errors list or
\* that entry has no message; it is the raw body when the body does not
\* parse, is not a JSON object, or its errors list is empty. A 404 is
\* NotFound.
C10_MessageRule ==
    hist.http # <<>> =>
        LET body == hist.http[2]
            top == body.has_message /\ body.message # ""
        IN  /\ body.json # "object" => err.message = body.text
            /\ (body.json = "object" /\ top) => err.message = body.message
            /\ (body.json = "object" /\ ~top /\ ~body.has_errors) =>
                  err.message = ""
            /\ (body.json = "object" /\ ~top /\ body.has_errors) =>
                  IF body.errors = <<>> THEN err.message = body.text
                  ELSE IF body.errors[1].has_message
                       THEN err.message = body.errors[1].message
                  ELSE err.message = ""
            /\ hist.http[1] = 404 => err.kind = "NotFound"

\* a 404 whose body holds a message field: NotFound carrying that message
C10_Witness ==
    /\ hist.http # <<>> /\ hist.http[1] = 404
    /\ hist.http[2].json = "object" /\ hist.http[2].message = "nf"
    /\ ~hist.http[2].has_errors
    /\ err.kind = "NotFound" /\ err.code = 404 /\ err.message = "nf"

-----------------------------------------------------------------------------
\* build_dataframe on its own, over sampled payloads

\* the variables of the sequential call other than arguments and pc
call_vars == <<now, start_time, global_timeout, date_chunks, ci, all_rows,
               c_rows, offset, sampled_global, avail, err, result, hist,
               Utils>>

\* no call of the sequential function is under way
CallIdle ==
    /\ now = 0
    /\ start_time = 0
    /\ global_timeout = 0
    /\ date_chunks = <<>>
    /\ ci = 0
    /\ all_rows = <<>>
    /\ c_rows = <<>>
    /\ offset = 0
    /\ sampled_global = FALSE
    /\ avail = 0
    /\ err = NoError
    /\ result = <<>>
    /\ hist = NoHist
    /\ Utils = NoUtils

NoArguments ==
    [ids |-> TRUE, date1 |-> NoneStr, date2 |-> NoneStr, split |-> FALSE,
     timeout |-> 0, batch_size |-> 1, max_rows |-> 0]

\* the echoed dimension names: none, ym:s:date, ym:s:date and ym:s:browser
DimensionEchoes ==
    { <<>>, << <<"ym", "s", "date">> >>,
      << <<"ym", "s", "date">>, <<"ym", "s", "browser">> >> }

\* the echoed metric names: none, ym:s:visits, ym:s:visits and users,
\* ym:pv:date, ym:s:visits and ym:pv:date
MetricEchoes ==
    { <<>>, << <<"ym", "s", "visits">> >>,
      << <<"ym", "s", "visits">>, <<"users">> >>,
      << <<"ym", "pv", "date">> >>,
      << <<"ym", "s", "visits">>, <<"ym", "pv", "date">> >> }

\* the dimension values and the metric values of a row, by position
DimensionValues == <<"a", "b", "c">>

MetricValues == <<"1", "2", "3">>

\* the "dimensions" of a row: the first n dimension values
RowDimensions ==
    { [j \in 1..n |-> [name |-> DimensionValues[j]]] :
        n \in 0..Len(DimensionValues) }

\* the "metrics" of a row: the first n metric values, or one nested set, or
\* two nested sets
RowMetrics ==
    { [j \in 1..n |-> Scalar(MetricValues[j])] : n \in 0..Len(MetricValues) }
    \cup { << List(<<"1", "2">>) >>,
           << List(<<"1", "2">>), List(<<"3", "4">>) >> }

RawRows == [dimensions : RowDimensions, metrics : RowMetrics]

\* the sequences of at most n elements of S
SeqUpTo(S, n) == UNION { [1..k -> S] : k \in 0..n }

InitFrame ==
    /\ arguments = NoArguments
    /\ pc = "entry"
    /\ CallIdle
    /\ data \in [query : [dimensions : DimensionEchoes, metrics : MetricEchoes],
                 data : SeqUpTo(RawRows, MaxRows)]
    /\ df = NoFrame
    /\ f = <<>>
    /\ header_written = FALSE
    /\ results = <<>>

\* df = build_dataframe(data), sequential variant
Build ==
    /\ pc = "entry"
    /\ df' = build_dataframe(data)
    /\ pc' = "built"
    /\ UNCHANGED <<arguments, data, f, header_written, results>>
    /\ UNCHANGED call_vars

\* df = build_dataframe(data), concurrent variant
AsyncBuild ==
    /\ pc = "entry"
    /\ df' = async_build_dataframe(data)
    /\ pc' = "async_built"
    /\ UNCHANGED <<arguments, data, f, header_written, results>>
    /\ UNCHANGED call_vars

NextFrame ==
    \/ Build
    \/ AsyncBuild

SpecFrame == InitFrame /\ [][NextFrame]_vars

\* the echoed names of the payload, dimensions then metrics
echo_names == data.query.dimensions \o data.query.metrics

\* no two echoed names end in the same segment
distinct_segments ==
    \A a, b \in 1..Len(echo_names) :
        last_segment(echo_names[a]) = last_segment(echo_names[b]) => a = b

\* row i gives one value per echoed name, the metrics not nested
matching_arity(i) ==
    /\ Len(data.data[i].dimensions) = Len(data.query.dimensions)
    /\ Len(data.data[i].metrics) = Len(data.query.metrics)
    /\ \A j \in 1..Len(data.data[i].metrics) :
          ~isinstance_list(data.data[i].metrics[j])

\* the cells of row i are its values in the order of the raw row
positional(i) ==
    LET n == Len(data.query.dimensions)
    IN  /\ \A j \in 1..n :
              df.values[i][j] = Scalar(data.data[i].dimensions[j].name)
        /\ \A j \in 1..Len(data.query.metrics) :
              df.values[i][n + j] = data.data[i].metrics[j]

\* C11 as stated: for a query echo with N dimension names and M metric names
\* and rows of matching arity, the table has exactly N+M columns, each named
\* by the trailing segment of its echoed name, and each row's value under a
\* column is the value at the same position of the raw row.
C11_ColumnsAndValues ==
    (pc = "built" /\ \A i \in 1..Len(data.data) : matching_arity(i)) =>
        /\ Len(df.columns) = Len(echo_names)
        /\ \A c \in 1..Len(echo_names) :
              df.columns[c] = echo_names[c][Len(echo_names[c])]
        /\ Len(df.values) = Len(data.data)
        /\ \A i \in 1..Len(data.data) : positional(i)

\* C11 amended: the same, for echoed names whose trailing segments differ
\* from one another.
C11_DistinctSegments ==
    (/\ pc = "built"
     /\ distinct_segments
     /\ \A i \in 1..Len(data.data) : matching_arity(i)) =>
        /\ Len(df.columns) = Len(echo_names)
        /\ \A c \in 1..Len(echo_names) :
              df.columns[c] = echo_names[c][Len(echo_names[c])]
        /\ Len(df.values) = Len(data.data)
        /\ \A i \in 1..Len(data.data) : positional(i)

\* two rows of two dimensions and two metrics under the names ym:s:date,
\* ym:s:browser, ym:s:visits and users
C11_Witness ==
    /\ pc = "built"
    /\ distinct_segments
    /\ Len(data.query.dimensions) = 2 /\ Len(data.query.metrics) = 2
    /\ Len(data.data) = 2
    /\ \A i \in 1..Len(data.data) : matching_arity(i)
    /\ df.columns = <<"date", "browser", "visits", "users">>

\* the number of metric values row i supplies: those of its first nested
\* set if its metrics are nested
supplied_metrics(i) ==
    LET metrics == data.data[i].metrics
    IN  IF Len(metrics) > 0 /\ isinstance_list(metrics[1])
        THEN Len(metrics[1]) - 1 ELSE Len(metrics)

\* the columns are the dimensions in echo order, then the metrics in echo
\* order, and every row of the payload is one row of the table
fixed_schema ==
    /\ Len(df.columns) = Len(echo_names)
    /\ \A c \in 1..Len(echo_names) :
          df.columns[c] = echo_names[c][Len(echo_names[c])]
    /\ Len(df.values) = Len(data.data)
    /\ \A i \in 1..Len(data.data) : Len(df.values[i]) = Len(echo_names)

\* the columns for which row i supplies no value are empty
missing_empty(i) ==
    LET n == Len(data.query.dimensions)
    IN  /\ \A j \in 1..n :
              j > Len(data.data[i].dimensions) => df.values[i][j] = NaN
        /\ \A j \in 1..Len(data.query.metrics) :
              j > supplied_metrics(i) => df.values[i][n + j] = NaN

\* C12 as stated: the columns are always the dimension columns in echo order
\* followed by the metric columns in echo order, whatever the order of the
\* keys of the rows' records, and a row with fewer dimension or metric values
\* than echoed names is still one row of the table, its missing columns empty.
C12_FixedSchema ==
    pc = "built" =>
        /\ fixed_schema
        /\ \A i \in 1..Len(data.data) : missing_empty(i)

\* C12 amended: the schema part always; the missing columns are empty when
\* the trailing segments of the echoed names differ from one another.
C12_FixedSchemaDistinct ==
    pc = "built" =>
        /\ fixed_schema
        /\ distinct_segments => \A i \in 1..Len(data.data) : missing_empty(i)

\* a first row with no dimension and one metric, whose record starts with a
\* metric key, then a row with two dimensions and no metric, under two
\* dimension names and two metric names
C12_Witness ==
    /\ pc = "built"
    /\ distinct_segments
    /\ Len(data.query.dimensions) = 2 /\ Len(data.query.metrics) = 2
    /\ Len(data.data) = 2
    /\ Len(data.data[1].dimensions) = 0 /\ Len(data.data[1].metrics) = 1
    /\ ~isinstance_list(data.data[1].metrics[1])
    /\ Len(data.data[2].dimensions) = 2 /\ Len(data.data[2].metrics) = 0
    /\ df.values[1] = <<NaN, NaN, Scalar("1"), NaN>>
    /\ df.values[2] = <<Scalar("a"), Scalar("b"), NaN, NaN>>

\* the table has a column named name whose cell of row i is val
kept_under(i, name, val) ==
    \E c \in 1..Len(df.columns) :
        df.columns[c] = name /\ df.values[i][c] = val

\* C13: a value a row carries at a position j beyond the echoed dimension
\* (metric) names is in the table, in the row's cell of the column
\* dimension_j (metric_j).
C13_SurplusKept ==
    pc = "built" =>
        \A i \in 1..Len(data.data) :
            /\ \A j \in 0..(Len(data.data[i].dimensions) - 1) :
                  j >= Len(data.query.dimensions) =>
                      kept_under(i, dimension_placeholders[j + 1],
                                 Scalar(data.data[i].dimensions[j + 1].name))
            /\ \A j \in 0..(Len(data.data[i].metrics) - 1) :
                  (/\ j >= Len(data.query.metrics)
                   /\ ~isinstance_list(data.data[i].metrics[1])) =>
                      kept_under(i, metric_placeholders[j + 1],
                                 data.data[i].metrics[j + 1])

\* the metrics of row i are nested lists
nested(i) ==
    /\ Len(data.data[i].metrics) > 0
    /\ \A j \in 1..Len(data.data[i].metrics) :
          isinstance_list(data.data[i].metrics[j])

\* the metric cells of row i are the values of its first nested list, by
\* position, and nothing of the other lists
first_set_cells(i) ==
    LET n == Len(data.query.dimensions)
        set == data.data[i].metrics[1]
    IN  \A j \in 1..Len(data.query.metrics) :
            df.values[i][n + j] =
                IF j <= Len(set) - 1 THEN Scalar(set[j + 1]) ELSE NaN

\* C14: for a row whose metrics are nested lists, one or several, the table
\* holds the values of the first list only, in the sequential and in the
\* concurrent build_dataframe.
C14_FirstNestedSetOnly ==
    pc \in {"built", "async_built"} =>
        \A i \in 1..Len(data.data) : nested(i) => first_set_cells(i)

-----------------------------------------------------------------------------
\* The sinks. A text is the sequence of its tokens, each a sequence of
\* strings: the header line of a csv, a csv line of one row, the JSON object
\* of one row, the line feed, and the brackets and comma of a JSON array.

NL == <<"nl">>

\* a cell as csv writes it: a missing value is the empty field
csv_field(cell) ==
    IF cell = NaN THEN "" ELSE IF cell[1] = "val" THEN cell[2] ELSE "list"

\* a cell as JSON writes it: a missing value is null
json_value(cell) ==
    IF cell = NaN THEN "null" ELSE IF cell[1] = "val" THEN cell[2] ELSE "list"

header_line(table) == <<"header">> \o table.columns

csv_line(table, i) ==
    <<"row">> \o [c \in 1..Len(table.columns) |-> csv_field(table.values[i][c])]

\* the JSON object of row i: its column names and values in turn
json_record(table, i) ==
    <<"record">> \o
        [k \in 1..(2 * Len(table.columns)) |->
            IF k % 2 = 1 THEN table.columns[(k + 1) \div 2]
            ELSE json_value(table.values[i][k \div 2])]

\* df.to_csv(index=False, header=header)
to_csv(table, header) ==
    (IF header THEN <<header_line(table), NL>> ELSE <<>>)
    \o [k \in 1..(2 * Len(table.values)) |->
           IF k % 2 = 1 THEN csv_line(table, (k + 1) \div 2) ELSE NL]

\* df.to_json(orient="records"): [obj,obj,...]
to_json_records(table) ==
    LET n == Len(table.values)
    IN  << <<"[">> >>
        \o [k \in 1..(IF n = 0 THEN 0 ELSE 2 * n - 1) |->
               IF k % 2 = 1 THEN json_record(table, (k + 1) \div 2) ELSE <<",">>]
        \o << <<"]">> >>

\* df.to_json(orient="records", lines=True): the objects separated by line
\* feeds; the pandas release decides whether a line feed ends the text
to_json_lines(table, ends_with_newline) ==
    LET n == Len(table.values)
    IN  [k \in 1..(IF n = 0 THEN 0 ELSE 2 * n - 1) |->
            IF k % 2 = 1 THEN json_record(table, (k + 1) \div 2) ELSE NL]
        \o (IF ends_with_newline /\ n > 0 THEN <<NL>> ELSE <<>>)

\* the end of the sequential function on all_rows: the empty check, the
\* table, the text returned
serialise(rows, query, output_format) ==
    IF rows = <<>>
    THEN [raised |-> TRUE, text |-> <<>>]
    ELSE LET table == build_dataframe([data |-> rows, query |-> query])
         IN  [raised |-> FALSE,
              text |-> IF output_format = "json" THEN to_json_records(table)
                       ELSE to_csv(table, TRUE)]

-----------------------------------------------------------------------------
\* fetch_chunk_all_pages_streaming

\* the query echo of the report streamed: ym:s:date, ym:s:visits
StreamQuery ==
    [dimensions |-> << <<"ym", "s", "date">> >>,
     metrics |-> << <<"ym", "s", "visits">> >>]

\* the dimension value of the k-th row of the report; its metric value is
\* that of the k-th row too
RowNames == <<"d1", "d2", "d3", "d4", "d5", "d6", "d7", "d8">>

RowCounts == <<"1", "2", "3", "4", "5", "6", "7", "8">>

\* the k-th row of the report
report_row(k) ==
    [dimensions |-> <<[name |-> RowNames[k]]>>,
     metrics |-> <<Scalar(RowCounts[k])>>]

\* the "data" of the page at offset off with limit rows of a report of total
\* rows
report_page(off, limit, total) ==
    [k \in 1..Len(page(1, off, limit, total)) |-> report_row(off + k - 1)]

\* observations of a streaming call
NoStream ==
    [opens |-> 0,          \* times the file was opened
     flushes |-> 0,        \* pages written to the file
     rows |-> <<>>,        \* the rows of the pages received
     ends_with_newline |-> FALSE]  \* to_json(lines=True) of the pandas in use

InitStream ==
    /\ arguments \in [ids : {TRUE}, date1 : {NoneStr}, date2 : {NoneStr},
                      split : {FALSE}, timeout : {0}, max_rows : {0},
                      batch_size : 1..MaxBatch,
                      output_format : {"csv", "json"}]
    /\ pc = "entry"
    /\ now = 0
    /\ start_time = 0
    /\ global_timeout = 0
    /\ date_chunks = <<>>
    /\ ci = 0
    /\ all_rows = <<>>
    /\ c_rows = <<>>
    /\ offset = 0
    /\ sampled_global = FALSE
    /\ avail = 0
    /\ err = NoError
    /\ result = <<>>
    /\ hist \in {[NoStream EXCEPT !.ends_with_newline = b] : b \in BOOLEAN}
    /\ SideInit

\* the variables a streaming call leaves alone
stream_idle == <<arguments, now, start_time, global_timeout, date_chunks, ci,
                 all_rows, c_rows, results, Utils>>

\* up to the first request: the locals, the file opened for writing
StreamCall ==
    /\ pc = "entry"
    /\ pc' = "streaming"
    /\ offset' = 1
    /\ data' = NoData
    /\ sampled_global' = FALSE
    /\ header_written' = FALSE
    /\ f' = <<>>
    /\ hist' = [hist EXCEPT !.opens = @ + 1]
    /\ avail' \in 0..MaxTotal
    /\ UNCHANGED <<df, err, result>>
    /\ UNCHANGED stream_idle

\* header=not header_written
HeaderAlways == TRUE

write_header == ~header_written

\* the text one page adds to the file
flush(table, output_format) ==
    IF output_format = "csv"
    THEN to_csv(table, write_header)
    ELSE to_json_lines(table, hist.ends_with_newline) \o <<NL>>

\* one iteration of the while loop on a payload with "data"
StreamPage ==
    /\ pc = "streaming"
    /\ \E sampled \in BOOLEAN :
          LET data_rows == report_page(offset, batch_size, avail)
              query == IF data.query = NoQuery THEN StreamQuery ELSE data.query
              table == build_dataframe([data |-> data_rows, query |-> query])
          IN  /\ data' = [query |-> query, data |-> data_rows]
              /\ sampled_global' = (sampled_global \/ sampled)
              /\ IF data_rows = <<>>
                 THEN /\ pc' = "streamed"
                      /\ UNCHANGED <<df, f, header_written, offset, hist>>
                 ELSE /\ df' = table
                      /\ f' = f \o flush(table, arguments.output_format)
                      /\ header_written' = TRUE
                      /\ hist' = [hist EXCEPT !.flushes = @ + 1,
                                              !.rows = @ \o data_rows]
                      /\ IF page_is_short(data_rows)
                         THEN pc' = "streamed" /\ UNCHANGED offset
                         ELSE pc' = "streaming"
                              /\ offset' = offset + batch_size
    /\ UNCHANGED <<avail, err, result>>
    /\ UNCHANGED stream_idle

\* fetch_page raises, or its payload has no "data": the exception leaves the
\* function and the with block closes the file
StreamRaise ==
    /\ pc = "streaming"
    /\ \E kind \in {"Timeout", "Connection", "Protocol"} :
          err' = Error(kind)
    /\ pc' = "raised"
    /\ UNCHANGED <<offset, data, df, f, header_written, sampled_global, avail,
                   result, hist>>
    /\ UNCHANGED stream_idle

\* the buffered sink of the sequential function on the rows of the same pages
Serialise ==
    /\ pc = "streamed"
    /\ LET r == serialise(hist.rows, data.query, arguments.output_format)
       IN  /\ all_rows' = hist.rows
           /\ IF r.raised
              THEN pc' = "buffered_raised" /\ err' = Error("Empty")
                   /\ UNCHANGED result
              ELSE pc' = "buffered" /\ result' = r.text /\ UNCHANGED err
    /\ UNCHANGED <<arguments, now, start_time, global_timeout, date_chunks, ci,
                   c_rows, offset, sampled_global, avail, hist>>
    /\ UNCHANGED side

NextStream ==
    \/ StreamCall
    \/ StreamPage
    \/ StreamRaise
    \/ Serialise

SpecStream == InitStream /\ [][NextStream]_vars

\* the positions of the file that hold a token of the kind
tokens_of(kind) == {k \in 1..Len(f) : f[k][1] = kind}

\* C15: the streaming sink opens its destination once; in csv mode, after
\* any number of pages flushed, the file has exactly one header line and it
\* comes before the first data row; in the record-per-line mode the file
\* never has a header and every row is one record on a line of its own.
C15_HeaderOnce ==
    pc \in {"streaming", "streamed", "raised"} =>
        /\ hist.opens = 1
        /\ Cardinality(tokens_of("header")) <= 1
        /\ arguments.output_format = "csv" =>
              /\ hist.flushes >= 1 =>
                    /\ tokens_of("header") = {1}
                    /\ f[1] = <<"header", "date", "visits">>
              /\ Cardinality(tokens_of("row")) = Len(hist.rows)
              /\ \A k \in tokens_of("row") \cup tokens_of("header") :
                    k < Len(f) /\ f[k + 1] = NL
        /\ arguments.output_format = "json" =>
              /\ tokens_of("header") = {}
              /\ Cardinality(tokens_of("record")) = Len(hist.rows)
              /\ \A k \in 1..Len(f) : f[k][1] \in {"record", "nl"}
              /\ \A k \in tokens_of("record") :
                    /\ k < Len(f) /\ f[k + 1] = NL
                    /\ k > 1 => f[k - 1] = NL

\* a csv written in three flushes
C15_Witness ==
    /\ pc = "streamed"
    /\ arguments.output_format = "csv"
    /\ hist.flushes = 3
    /\ Cardinality(tokens_of("row")) >= 3
    /\ tokens_of("header") = {1}

\* C16: for the same pages and the same output format, csv or json, the text
\* the streaming sink leaves in its file is the text the buffered sink
\* returns, for one page, several pages and no row at all.
C16_SinksAgree ==
    pc \in {"buffered", "buffered_raised"} =>
        /\ pc = "buffered"
        /\ result = f

-----------------------------------------------------------------------------
\* The concurrent variant (get_report_visits_yandex_metric_async.py): one
\* request per yearly chunk, all awaited together, the answers merged.

\* the chunks of current.year .. end.year
RECURSIVE year_loop(_, _)
year_loop(current, end) ==
    IF current.year > end.year THEN <<>>
    ELSE << <<strftime(current),
              strftime(min_dt(datetime(current.year, 12, 31), end))>> >>
         \o year_loop(datetime(current.year + 1, 1, 1), end)

\* split_by_year(date1, date2): raises ValueError when strptime does
split_by_year(date1, date2) ==
    IF ~strptime_ok(date1) \/ ~strptime_ok(date2)
    THEN [raised |-> TRUE, chunks |-> <<>>]
    ELSE [raised |-> FALSE,
          chunks |-> year_loop(strptime(date1), strptime(date2))]

\* the date arguments of the modelled calls: 2023-03-15, 2024-01-01,
\* 2025-06-30, 2024/01/05 and an absent date
AsyncDates ==
    { Iso(2023, 3, 15), Iso(2024, 1, 1), Iso(2025, 6, 30),
      Text(2024, 4, 1, 2, 5, 2, "/"), NoneStr }

\* The free-text request of a call, as what the detectors find in it: the
\* substrings matching \d{4}-\d{2}-\d{2}, in order, and whether a counter id
\* follows the counter keyword; NoText is an absent (or empty) "query".
NoText == [present |-> FALSE, candidates |-> <<>>, ids |-> FALSE]

Request(candidates, ids) ==
    [present |-> TRUE, candidates |-> candidates, ids |-> ids]

\* the requests of the modelled calls: none; a sentence without dates that
\* names the counter; one with the dates 2025-06-30 and 2023-03-15 and the
\* counter; one with 2024-13-01 and 2024-01-01 and no counter
Queries ==
    { NoText,
      Request(<<>>, TRUE),
      Request(<<Iso(2025, 6, 30), Iso(2023, 3, 15)>>, TRUE),
      Request(<<Iso(2024, 13, 1), Iso(2024, 1, 1)>>, FALSE) }

\* detect_dates(text): raises ValueError unless the first two candidates
\* are dates; the two dates, the earlier first
detect_dates(text) ==
    IF Len(text.candidates) < 2
    THEN [raised |-> TRUE, date1 |-> NoneStr, date2 |-> NoneStr]
    ELSE IF \/ ~strptime_ok(text.candidates[1])
            \/ ~strptime_ok(text.candidates[2])
    THEN [raised |-> TRUE, date1 |-> NoneStr, date2 |-> NoneStr]
    ELSE LET d1 == strptime(text.candidates[1])
             d2 == strptime(text.candidates[2])
         IN  IF toordinal(d1) > toordinal(d2)
             THEN [raised |-> FALSE, date1 |-> strftime(d2),
                   date2 |-> strftime(d1)]
             ELSE [raised |-> FALSE, date1 |-> strftime(d1),
                   date2 |-> strftime(d2)]

\* parse_request(user_request): detect_dates first, then the other detectors
parse_request(user_request) ==
    LET r == detect_dates(user_request)
    IN  [raised |-> r.raised, ids |-> user_request.ids,
         date1 |-> r.date1, date2 |-> r.date2]

\* for k, v in parsed.items(): if k not in arguments: arguments[k] = v
\* (a counter that is FALSE and a date that is NoneStr are keys not given)
with_parsed(args, parsed) ==
    [args EXCEPT !.ids = IF @ THEN @ ELSE parsed.ids,
                 !.date1 = IF @.form = "none" THEN parsed.date1 ELSE @,
                 !.date2 = IF @.form = "none" THEN parsed.date2 ELSE @]

\* a request not answered yet
Pending == [kind |-> "pending", rows |-> 0]

\* what a request ends with: an exception (status, connection, timeout),
\* or the JSON object of a report of 0, 1 or 2 rows
Outcomes ==
    {[kind |-> "exception", rows |-> 0]}
    \cup {[kind |-> "dict", rows |-> n] : n \in {0, 1, 2}}

\* the payload of the answer r to the request of chunk i
chunk_payload(i, r) ==
    [query |-> [dimensions |-> StreamQuery.dimensions,
                metrics |-> StreamQuery.metrics,
                date1 |-> date_chunks[i][1], date2 |-> date_chunks[i][2]],
     data |-> [j \in 1..r.rows |-> report_row(2 * (i - 1) + j)]]

\* observations of a concurrent call
NoAsync ==
    [order |-> <<>>,       \* the chunks in the order their requests ended
     requests |-> 0,       \* requests issued
     supplied |-> NoArguments]  \* the arguments as the caller passed them

InitAsync ==
    /\ arguments \in [ids : BOOLEAN, date1 : AsyncDates, date2 : AsyncDates,
                      query : Queries,
                      split : {FALSE}, timeout : {0}, batch_size : {1},
                      max_rows : {0}]
    /\ pc = "entry"
    /\ now = 0
    /\ start_time = 0
    /\ global_timeout = 0
    /\ date_chunks = <<>>
    /\ ci = 0
    /\ all_rows = <<>>
    /\ c_rows = <<>>
    /\ offset = 0
    /\ sampled_global = FALSE
    /\ avail = 0
    /\ err = NoError
    /\ result = NoFrame
    /\ hist = NoAsync
    /\ SideInit

\* the variables a concurrent call leaves alone
async_idle == <<now, start_time, global_timeout, ci, c_rows,
                offset, sampled_global, avail, f, header_written, Utils>>

\* parse_request on the query and the merge of what it finds, the checks of
\* ids and dates, split_by_year, and fetch_all up to gather: one fetch_page
\* task per chunk
AsyncCall ==
    /\ pc = "entry"
    /\ LET parsed == parse_request(arguments.query)
           args == IF arguments.query.present
                   THEN with_parsed(arguments, parsed) ELSE arguments
           r == split_by_year(args.date1, args.date2)
           h == [hist EXCEPT !.supplied = arguments]
       IN  IF arguments.query.present /\ parsed.raised
           THEN /\ pc' = "raised"
                /\ err' = Error("Validation")
                /\ hist' = h
                /\ UNCHANGED <<arguments, date_chunks, results>>
           ELSE /\ arguments' = args
                /\ IF \/ ~args.ids
                      \/ args.date1.form = "none" \/ args.date2.form = "none"
                      \/ r.raised
                   THEN /\ pc' = "raised"
                        /\ err' = Error("Validation")
                        /\ hist' = h
                        /\ UNCHANGED <<date_chunks, results>>
                   ELSE /\ pc' = "gather"
                        /\ date_chunks' = r.chunks
                        /\ results' = [i \in 1..Len(r.chunks) |-> Pending]
                        /\ hist' = [h EXCEPT !.requests = Len(r.chunks)]
                        /\ UNCHANGED err
    /\ UNCHANGED <<all_rows, data, df, result>>
    /\ UNCHANGED async_idle

\* the request of one chunk ends, with a payload or with an exception
Complete ==
    /\ pc = "gather"
    /\ \E i \in 1..Len(results), r \in Outcomes :
          /\ results[i] = Pending
          /\ results' = [results EXCEPT ![i] = r]
          /\ hist' = [hist EXCEPT !.order = Append(@, i)]
    /\ UNCHANGED <<arguments, pc, date_chunks, all_rows, data, df, err,
                   result>>
    /\ UNCHANGED async_idle

\* asyncio.gather(*tasks, return_exceptions=True): whether it raises
GatherRaises(rs) == \E i \in 1..Len(rs) : rs[i].kind = "exception"

gather_raises(rs) == FALSE

SuccessfulAsCompleted(rs) == SelectSeq(hist.order,
                                       LAMBDA i : rs[i].kind = "dict")

\* [r for r in results if isinstance(r, dict)], as the chunks they answer
successful(rs) == SelectSeq([i \in 1..Len(rs) |-> i],
                            LAMBDA i : rs[i].kind = "dict")

\* all_rows.extend(r.get("data", [])) for the results from the k-th on
RECURSIVE extend_all(_, _, _)
extend_all(rs, chunks, k) ==
    IF k > Len(chunks) THEN <<>>
    ELSE chunk_payload(chunks[k], rs[chunks[k]]).data
         \o extend_all(rs, chunks, k + 1)

\* the payload main gives build_dataframe: the rows of the results, the
\* query of the first one
merged(rs) ==
    LET chunks == successful(rs)
    IN  [query |-> IF chunks = <<>> THEN NoQuery
                   ELSE chunk_payload(chunks[1], rs[chunks[1]]).query,
         data |-> extend_all(rs, chunks, 1)]

\* every request has ended: gather returns, the results are merged, the
\* table is built and uploaded (the upload may fail), its link returned
Merge ==
    /\ pc = "gather"
    /\ \A i \in 1..Len(results) : results[i] # Pending
    /\ IF gather_raises(results)
       THEN /\ pc' = "raised"
            /\ err' = Error("Chunk")
            /\ UNCHANGED <<all_rows, data, df, result>>
       ELSE /\ data' = merged(results)
            /\ all_rows' = merged(results).data
            /\ df' = async_build_dataframe(merged(results))
            /\ \E uploaded \in BOOLEAN :
                  IF uploaded
                  THEN /\ pc' = "returned"
                       /\ result' = async_build_dataframe(merged(results))
                       /\ UNCHANGED err
                  ELSE /\ pc' = "raised"
                       /\ err' = Error("Upload")
                       /\ UNCHANGED result
    /\ UNCHANGED <<arguments, date_chunks, results, hist>>
    /\ UNCHANGED async_idle

NextAsync ==
    \/ AsyncCall
    \/ Complete
    \/ Merge

SpecAsync == InitAsync /\ [][NextAsync]_vars

\* the chunks whose request failed
excluded == {i \in 1..Len(results) : results[i].kind = "exception"}

\* C17: a chunk whose request fails is left out without aborting the call,
\* and the rows of every chunk whose request succeeded are all in the merged
\* result, in the rows merged and in the table, whatever chunks failed.
C17_FailedChunksExcluded ==
    /\ pc = "raised" => err.kind \in {"Validation", "Upload"}
    /\ pc = "returned" =>
          \A i \in 1..Len(results) :
              results[i].kind = "dict" =>
                  \A j \in 1..results[i].rows :
                      /\ \E k \in 1..Len(all_rows) :
                            all_rows[k] = report_row(2 * (i - 1) + j)
                      /\ \E k \in 1..Len(result.values) :
                            result.values[k] =
                                <<Scalar(RowNames[2 * (i - 1) + j]),
                                  Scalar(RowCounts[2 * (i - 1) + j])>>

\* of three chunks the second failed, the first and the third gave two rows
C17_Witness ==
    /\ pc = "returned"
    /\ Len(results) = 3
    /\ excluded = {2}
    /\ results[1].rows = 2 /\ results[3].rows = 2
    /\ Len(result.values) = 4

\* the results had the requests that failed been answered with no rows
complete_twin ==
    [i \in 1..Len(results) |->
        IF results[i].kind = "exception" THEN [kind |-> "dict", rows |-> 0]
        ELSE results[i]]

\* C18: when chunks are left out because their request failed, what the call
\* returns tells the caller so: it is not what a call with every request
\* answered returns.
C18_ExcludedCountSurfaced ==
    (pc = "returned" /\ excluded # {}) =>
        result # async_build_dataframe(merged(complete_twin))

\* C19: a call that obtained no rows, every request failed or every answer
\* empty, raises the empty-result error and delivers no table.
C19_EmptyIsErrorAsync ==
    /\ pc = "returned" => all_rows # <<>> /\ result.values # <<>>
    /\ (pc = "raised" /\ err.kind # "Validation" /\ all_rows = <<>>) =>
          err.kind \in {"Empty", "Upload"}

-----------------------------------------------------------------------------
\* The granularity of the partition (SpecChunks)

\* the unit claimed for a span of days
claimed_unit(span) ==
    IF span <= 365 THEN "month" ELSE IF span <= 1825 THEN "quarter" ELSE "year"

\* the date s is the first day of a unit
unit_start(unit, s) ==
    /\ s.d = 1
    /\ unit = "quarter" => s.m \in {1, 4, 7, 10}
    /\ unit = "year" => s.m = 1

\* the date s is the last day of a unit
unit_end(unit, s) ==
    /\ s.d = DaysInMonth(s.y, s.m)
    /\ unit = "quarter" => s.m \in {3, 6, 9, 12}
    /\ unit = "year" => s.m = 12

\* the dates a and b are in the same unit
same_unit(unit, a, b) ==
    /\ a.y = b.y
    /\ unit = "month" => a.m = b.m
    /\ unit = "quarter" => (a.m - 1) \div 3 = (b.m - 1) \div 3

-----------------------------------------------------------------------------
\* The partition with split off (SpecChunks)

\* C21: with split off and start <= end, auto_date_chunks gives exactly one
\* chunk, the input range (date1, date2), however long the span is, and does
\* not raise.
C21_SingleChunk ==
    ~arguments.split =>
        /\ pc = "chunked" => date_chunks = << <<arguments.date1, arguments.date2>> >>
        /\ pc = "raised" => Ord(arguments.date1) > Ord(arguments.date2)

\* a range of more than 1825 days left in one piece
C21_Witness ==
    /\ pc = "chunked" /\ ~arguments.split
    /\ Ord(arguments.date2) - Ord(arguments.date1) > 1825
    /\ Len(date_chunks) = 1

-----------------------------------------------------------------------------
\* Steps of the sequential call (Spec)

\* the step issues a request and receives a payload with "data"
page_received ==
    /\ pc = "loop"
    /\ hist'.nreq_total = hist.nreq_total + 1
    /\ ~hist'.failed

\* fetch_chunk_all_pages returns in the step
chunk_returned == hist'.last_chunk # hist.last_chunk

\* the sampled flag of the chunk after the step
flag_after ==
    IF chunk_returned THEN hist'.last_chunk.sampled ELSE sampled_global'

\* C22: in fetch_chunk_all_pages the sampled flag, once true, stays true to
\* the end of the chunk whatever later pages report; a page never raises or
\* ends the pagination because it is sampled (the loop goes on unless the
\* ceiling is reached or the page is short, and the only error after a page
\* is the empty result of a call without rows); a chunk that ends with the
\* flag set returns its rows and the warning is logged.
C22_SampledMonotonic ==
    [][page_received =>
          LET pg == page(ci, offset, batch_size, avail)
              rows == c_rows \o pg
              kept == IF reached_ceiling(rows) THEN trim(rows) ELSE rows
          IN  /\ sampled_global => flag_after
              /\ chunk_returned <=> (reached_ceiling(rows) \/ page_is_short(pg))
              /\ ~chunk_returned => (pc' = "loop" /\ c_rows' = rows)
              /\ chunk_returned =>
                    /\ hist'.last_chunk.stop \in {"ceiling", "short"}
                    /\ hist'.last_chunk.rows = Len(kept)
                    /\ pc' = "raised" => (err'.kind = "Empty" /\ all_rows' = <<>>)
                    /\ pc' # "raised" =>
                          \E n \in 0..Len(kept) :
                              all_rows' = all_rows \o SubSeq(kept, 1, n)
    ]_vars

\* a call returned after a chunk of two pages or more that ended with the
\* flag set and gave rows
C22_Witness ==
    /\ pc = "returned"
    /\ hist.last_chunk.sampled
    /\ hist.last_chunk.nreq >= 2
    /\ hist.last_chunk.rows >= 2

\* the step issues a request and receives a response body, with or without
\* "data"
body_received ==
    /\ pc = "loop"
    /\ hist'.nreq_total = hist.nreq_total + 1
    /\ ~hist'.failed \/ err'.kind = "Protocol"

\* C23: after each page the outcome is that of the first condition that
\* applies, in the order (a) the accumulated rows reach the ceiling: trim to
\* the ceiling and stop; (b) the body has no "data": protocol error; (c) the
\* page has fewer rows than the page size: stop; otherwise the next page is
\* requested.
C23_TerminationOrder ==
    [][body_received =>
          LET has_data == ~hist'.failed
              pg == IF has_data THEN page(ci, offset, batch_size, avail) ELSE <<>>
              accumulated == Len(c_rows) + Len(pg)
              a == max_rows # 0 /\ accumulated >= max_rows
              b == ~has_data
              c == Len(pg) < batch_size
          IN  IF a
              THEN /\ chunk_returned
                   /\ hist'.last_chunk.stop = "ceiling"
                   /\ hist'.last_chunk.rows = max_rows
                   /\ err'.kind # "Protocol"
              ELSE IF b
              THEN /\ ~chunk_returned
                   /\ pc' = "raised"
                   /\ err'.kind = "Protocol"
              ELSE IF c
              THEN /\ chunk_returned
                   /\ hist'.last_chunk.stop = "short"
                   /\ hist'.last_chunk.rows = accumulated
              ELSE /\ ~chunk_returned
                   /\ pc' = "loop"
                   /\ offset' = offset + batch_size
    ]_vars

\* a chunk ended by the ceiling on a page that was also short: a report of
\* three rows, pages of two, a ceiling of three
C23_Witness ==
    /\ hist.last_chunk.stop = "ceiling"
    /\ hist.last_chunk.nreq = 2
    /\ hist.last_chunk.avail = 3
    /\ arguments.batch_size = 2
    /\ arguments.max_rows = 3
    /\ hist.last_chunk.rows = 3

-----------------------------------------------------------------------------
\* Explicit parameters and the free-text request (SpecAsync)

\* the caller passed ids, date1 and date2 together with a free-text query
explicit_with_query ==
    /\ hist.supplied.ids
    /\ hist.supplied.date1.form # "none"
    /\ hist.supplied.date2.form # "none"
    /\ hist.supplied.query.present

\* C24: when the caller supplies ids, date1 and date2 together with a
\* free-text query, the call goes on with the supplied values whatever the
\* text holds: they are not replaced, the period split is that of the supplied
\* dates, and the call is refused only when the supplied dates are.
C24_ExplicitWins ==
    (pc # "entry" /\ explicit_with_query) =>
        LET r == split_by_year(hist.supplied.date1, hist.supplied.date2)
        IN  /\ arguments = hist.supplied
            /\ (pc = "raised" /\ err.kind = "Validation") => r.raised
            /\ ~r.raised => hist.requests = Len(r.chunks)

-----------------------------------------------------------------------------
\* Ordering of the sequential call (Spec)

\* a step that issues a page request
request_issued == hist'.nreq_total # hist.nreq_total

\* the rows <<chunk, index>> of a table follow chunk order, and inside a
\* chunk run from its first row on without a gap
in_chunk_page_row_order(rows) ==
    /\ rows # <<>> => rows[1][2] = 1
    /\ \A i \in 1..(Len(rows) - 1) :
          \/ rows[i + 1][1] = rows[i][1] /\ rows[i + 1][2] = rows[i][2] + 1
          \/ rows[i + 1][1] > rows[i][1] /\ rows[i + 1][2] = 1

\* C25: chunks are taken in partition order, one after the other; a step
\* issues at most one request, after the answer to the one before and its
\* pacing delay; the k-th request of a chunk asks for offset
\* 1 + (k-1)*batch_size, every page before it having been received full; the
\* rows of the table returned are in chunk order, then page order, then the
\* order inside the page.
C25_SequentialOrder ==
    [][/\ ci' # ci => (ci' = ci + 1 /\ offset' = 1 /\ c_rows' = <<>>)
       /\ request_issued =>
             /\ pc = "loop"
             /\ hist'.nreq_total = hist.nreq_total + 1
             /\ hist'.issue_at = now
             /\ hist.issue_at >= 0 => now >= hist.issue_at + PacingTicks
             /\ offset = 1 + hist.nreq * batch_size
             /\ Len(c_rows) = hist.nreq * batch_size
             /\ \A k \in 1..Len(c_rows) : c_rows[k] = <<ci, k>>
       /\ in_chunk_page_row_order(all_rows')
       /\ pc' = "returned" => result' = all_rows'
      ]_vars

\* a table of three chunks, the first read in one page, the last in two
C25_Witness ==
    /\ pc = "returned"
    /\ Len(date_chunks) = 3
    /\ hist.last_chunk.ci = 3 /\ hist.last_chunk.nreq = 2
    /\ Len(result) >= 5
    /\ result[1] = <<1, 1>> /\ result[2][1] = 2
    /\ result[Len(result)][1] = 3

-----------------------------------------------------------------------------
\* Fan-out and merge of the concurrent call (SpecAsync)

\* the rows of the answered chunks from the i-th on, in chunk order
RECURSIVE rows_in_chunk_order(_)
rows_in_chunk_order(i) ==
    IF i > Len(results) THEN <<>>
    ELSE (IF results[i].kind = "dict"
          THEN [j \in 1..results[i].rows |-> report_row(2 * (i - 1) + j)]
          ELSE <<>>)
         \o rows_in_chunk_order(i + 1)

\* the answered chunks
answered == {i \in 1..Len(results) : results[i].kind = "dict"}

\* C26: one request is issued per chunk and each ends once; no row is merged
\* while a request is pending; once all have ended the rows merged are those
\* of the answered chunks in chunk order and the query echo is that of the
\* first answered chunk in chunk order, in whatever order the requests ended.
C26_FanOutMerge ==
    /\ pc \in {"gather", "returned"} =>
          /\ hist.requests = Len(date_chunks)
          /\ Len(results) = Len(date_chunks)
          /\ \A a, b \in 1..Len(hist.order) :
                a # b => hist.order[a] # hist.order[b]
          /\ {hist.order[a] : a \in 1..Len(hist.order)} =
                {i \in 1..Len(results) : results[i] # Pending}
    /\ pc = "gather" => (all_rows = <<>> /\ data = NoData /\ df = NoFrame)
    /\ pc = "returned" =>
          /\ \A i \in 1..Len(results) : results[i] # Pending
          /\ all_rows = rows_in_chunk_order(1)
          /\ data.data = all_rows
          /\ answered # {} =>
                LET first == CHOOSE i \in answered : \A k \in answered : i <= k
                IN  /\ data.query.date1 = date_chunks[first][1]
                    /\ data.query.date2 = date_chunks[first][2]
          /\ Len(result.values) = Len(all_rows)
          /\ \A k \in 1..Len(all_rows) :
                result.values[k][1] = Scalar(all_rows[k].dimensions[1].name)

\* three chunks whose requests ended last chunk first, all answered with rows
C26_Witness ==
    /\ pc = "returned"
    /\ hist.order = <<3, 2, 1>>
    /\ \A i \in 1..3 : results[i].kind = "dict" /\ results[i].rows = 2
    /\ data.query.date1 = date_chunks[1][1]

-----------------------------------------------------------------------------
\* The preset variant (get_report_visits_yandex_metric.py): one loop of pages
\* driven by the total_rows the API reports. The function body holds the
\* class statement of Utils, so every call executes it.

\* LIMIT: ClassVar[int] = 10000
LIMIT == 10000

\* calls made one after the other in the process
MaxCalls == 2

\* the reports hold about 0, 1, .. MaxPages times LIMIT rows
MaxPages == 2

ClassUtilsOnce(current) ==
    IF current = NoUtils
    THEN [OFFSET |-> 1, TOTAL_ROWS |-> 0, LIMIT |-> LIMIT]
    ELSE current

\* class Utils: the attributes as the class body sets them, whatever the
\* class of an earlier call held
class_Utils(current) == [OFFSET |-> 1, TOTAL_ROWS |-> 0, LIMIT |-> LIMIT]

\* the numbers of rows of the modelled reports: the multiples of LIMIT, one
\* row less and one row more
TotalRows ==
    {n \in {k * LIMIT + e : k \in 0..MaxPages, e \in {-1, 0, 1}} : n >= 0}

\* the arguments of the modelled calls
PresetArguments ==
    [ids : BOOLEAN, date1 : {Iso(2023, 1, 1)}, date2 : {Iso(2023, 1, 31)},
     split : {FALSE}, timeout : {0}, batch_size : {1}, max_rows : {0}]

\* the "data" of the answer to offset off, limit for a report of total rows,
\* as the run <<first, last>> of the row numbers it holds (no run: no rows)
window(off, limit, total) ==
    IF off > total THEN <<>>
    ELSE << <<off, Min(off + limit - 1, total)>> >>

\* len() of a list of rows held as runs
RECURSIVE len_rows(_)
len_rows(runs) ==
    IF runs = <<>> THEN 0
    ELSE runs[1][2] - runs[1][1] + 1 + len_rows(Tail(runs))

\* observations of the calls of the preset variant
NoPreset ==
    [calls |-> 0,          \* calls begun
     offsets |-> <<>>,     \* for each call, the offsets it requested, in order
     reported |-> TRUE]    \* every answer of the current call held total_rows

InitPreset ==
    /\ arguments = NoArguments
    /\ pc = "entry"
    /\ now = 0
    /\ start_time = 0
    /\ global_timeout = 0
    /\ date_chunks = <<>>
    /\ ci = 0
    /\ all_rows = <<>>
    /\ c_rows = <<>>
    /\ offset = 0
    /\ sampled_global = FALSE
    /\ avail = 0
    /\ err = NoError
    /\ result = <<>>
    /\ hist = NoPreset
    /\ SideInit

\* the variables the preset variant does not use
preset_idle == <<now, start_time, global_timeout, date_chunks, ci, c_rows,
                 offset, sampled_global, data, df, f, header_written,
                 results>>

\* a call begins, the first or one after a call that ended: the class
\* statement, the ids check, all_rows = []
PresetCall ==
    /\ pc \in {"entry", "returned", "raised"}
    /\ hist.calls < MaxCalls
    /\ \E args \in PresetArguments, total \in TotalRows :
          /\ arguments' = args
          /\ avail' = total
          /\ IF ~args.ids
             THEN /\ pc' = "raised"
                  /\ err' = Error("Validation")
             ELSE /\ pc' = "loop"
                  /\ err' = NoError
    /\ Utils' = class_Utils(Utils)
    /\ all_rows' = <<>>
    /\ result' = <<>>
    /\ hist' = [hist EXCEPT !.calls = @ + 1, !.offsets = Append(@, <<>>),
                            !.reported = TRUE]
    /\ UNCHANGED preset_idle

\* hist after a request with the offset of Utils
Requested(has_total) ==
    [hist EXCEPT !.offsets[Len(hist.offsets)] = Append(@, Utils.OFFSET),
                 !.reported = @ /\ has_total]

\* one iteration of the while loop whose request is answered: the rows are
\* added, TOTAL_ROWS taken from the answer (len(all_rows) when the answer has
\* no total_rows), and the loop stops or moves OFFSET on; after the loop the
\* table is built and uploaded (the upload may fail)
PresetPage ==
    /\ pc = "loop"
    /\ \E has_total \in BOOLEAN :
          LET rows == all_rows \o window(Utils.OFFSET, Utils.LIMIT, avail)
              total == IF has_total THEN avail ELSE len_rows(rows)
          IN  /\ all_rows' = rows
              /\ hist' = Requested(has_total)
              /\ IF Utils.OFFSET + Utils.LIMIT >= total
                 THEN /\ Utils' = [Utils EXCEPT !.TOTAL_ROWS = total]
                      /\ \E uploaded \in BOOLEAN :
                            IF uploaded
                            THEN /\ pc' = "returned"
                                 /\ result' = rows
                                 /\ UNCHANGED err
                            ELSE /\ pc' = "raised"
                                 /\ err' = Error("Upload")
                                 /\ UNCHANGED result
                 ELSE /\ Utils' = [Utils EXCEPT !.TOTAL_ROWS = total,
                                                !.OFFSET = @ + Utils.LIMIT]
                      /\ UNCHANGED <<pc, err, result>>
    /\ UNCHANGED <<arguments, avail>>
    /\ UNCHANGED preset_idle

\* r.raise_for_status() raises: the exception leaves the function
PresetHttpError ==
    /\ pc = "loop"
    /\ pc' = "raised"
    /\ err' = Error("Http")
    /\ hist' = Requested(TRUE)
    /\ UNCHANGED <<arguments, avail, all_rows, result, Utils>>
    /\ UNCHANGED preset_idle

NextPreset ==
    \/ PresetCall
    \/ PresetPage
    \/ PresetHttpError

SpecPreset == InitPreset /\ [][NextPreset]_vars

\* C27: the pagination counters belong to one loop: every call starts at the
\* offset origin whatever an earlier call in the process left, and within a
\* call each request is LIMIT rows after the one before; a second call made
\* after a call of several pages first asks for offset 1.
C27_CountersLocal ==
    /\ \A c \in 1..Len(hist.offsets) :
          /\ hist.offsets[c] # <<>> => hist.offsets[c][1] = 1
          /\ \A k \in 1..(Len(hist.offsets[c]) - 1) :
                hist.offsets[c][k + 1] = hist.offsets[c][k] + LIMIT
    /\ (pc = "loop" /\ hist.offsets[Len(hist.offsets)] = <<>>) =>
          (Utils.OFFSET = 1 /\ Utils.TOTAL_ROWS = 0 /\ Utils.LIMIT = LIMIT)

\* the second call has made its first request after a first call of two pages
C27_Witness ==
    /\ Len(hist.offsets) = 2
    /\ Len(hist.offsets[1]) = 2
    /\ hist.offsets[1][2] = 1 + LIMIT
    /\ hist.offsets[2] # <<>> /\ hist.offsets[2][1] = 1

\* the loop of the current call stopped on OFFSET + LIMIT >= TOTAL_ROWS
loop_stopped == pc = "returned" \/ (pc = "raised" /\ err.kind = "Upload")

\* C30: when the loop stops on its test, every answer having reported
\* total_rows, the windows [offset, offset + LIMIT - 1] requested start at
\* row 1, follow one another without a gap and reach the last row of the
\* report, and the rows received are all the rows 1..total_rows.
C30_WindowsCoverReport ==
    (loop_stopped /\ hist.reported) =>
        LET requested == hist.offsets[Len(hist.offsets)]
        IN  /\ requested[1] = 1
            /\ \A k \in 1..(Len(requested) - 1) :
                  requested[k + 1] = requested[k] + LIMIT
            /\ requested[Len(requested)] + LIMIT - 1 >= avail
            /\ len_rows(all_rows) = avail

-----------------------------------------------------------------------------
\* The row ceiling across chunks (Spec)

\* C28: with a row ceiling set, no page request is issued when the rows
\* merged from the chunks before plus the rows accumulated in the current
\* chunk are already at least the ceiling.
C28_NoOverFetch ==
    [][request_issued =>
          ~(max_rows # 0 /\ Len(all_rows) + Len(c_rows) >= max_rows)]_vars

-----------------------------------------------------------------------------
\* Termination of the sequential call against a remote API that may answer
\* every request with a full page (SpecEndless)

\* requests of one call, and ticks of the clock, up to which the model
\* follows a call; the budget of the modelled calls ends a call before
MaxRequests == 12

MaxClock == 200

\* the date arguments of the modelled calls: 2024-01-31, 2024-02-01 (two
\* chunks when split), absent
EndlessDates == { Iso(2024, 1, 31), Iso(2024, 2, 1), NoneStr }

InitEndless ==
    /\ arguments \in [ids : BOOLEAN, date1 : EndlessDates,
                      date2 : EndlessDates, split : BOOLEAN,
                      timeout : Timeouts, batch_size : 1..MaxBatch,
                      max_rows : {0}]
    /\ pc = "entry"
    /\ now = 0
    /\ start_time = 0
    /\ global_timeout = 0
    /\ date_chunks = <<>>
    /\ ci = 0
    /\ all_rows = <<>>
    /\ c_rows = <<>>
    /\ offset = 0
    /\ sampled_global = FALSE
    /\ avail = 0
    /\ err = NoError
    /\ result = <<>>
    /\ hist = NoHist
    /\ SideInit

\* the "data" of an answer that is a full page whatever the offset
full_page(c, off, limit) == [i \in 1..limit |-> <<c, off + i - 1>>]

\* fetch_page returns a full page although the report has no such rows
PageFull ==
    /\ pc = "loop"
    /\ ~budget_exhausted(budget_left(now))
    /\ \E d \in Latencies, sampled \in BOOLEAN :
          /\ now' = now + d + PacingTicks
          /\ after_page(full_page(ci, offset, batch_size), sampled,
                        Issued(budget_left(now)))
    /\ UNCHANGED <<arguments, start_time, global_timeout>>
    /\ UNCHANGED side

\* the call is followed for at most MaxRequests requests and MaxClock ticks
followed == hist.nreq_total < MaxRequests /\ now < MaxClock

\* one iteration of the while loop of the chunk under way
LoopRuns ==
    \/ followed /\ BudgetExhausted
    \/ followed /\ PageOk
    \/ followed /\ PageFull
    \/ followed /\ PageNoData
    \/ followed /\ PageTimeout
    \/ followed /\ PageConnectionError
    \/ followed /\ PageHttpError

NextEndless ==
    \/ followed /\ Call
    \/ LoopRuns

\* the call is made, its checks and the partition being a finite computation;
\* the interpreter keeps running the loop, and every request ends, with an
\* answer, an error or its timeout
SpecEndless ==
    /\ InitEndless /\ [][NextEndless]_vars
    /\ <>(pc # "entry")
    /\ WF_vars(LoopRuns)

\* C29: with no row ceiling, every call ends, by returning a table or by
\* raising, whatever the remote API answers, full pages to every request
\* included.
C29_Terminates == <>(pc \in {"returned", "raised"})

\* a call fed full pages until the budget ran out: ten requests, ten full
\* pages in the chunk, more rows than its report has
C29_Witness ==
    /\ pc = "raised" /\ err.kind = "Timeout"
    /\ hist.query_raised
    /\ hist.nreq = 10
    /\ Len(c_rows) = 10 * batch_size
    /\ Len(c_rows) > avail

=============================================================================
